---- MODULE Spec2Model ----
(***************************************************************************)
(* A model of the google_distance client library:                          *)
(*   - data_classes.py: TravelTime and its per-mode children, which parse  *)
(*     a Distance Matrix API response into a result object;                *)
(*   - get_travel_times.py: GoogleDistance, which builds request URLs and  *)
(*     runs them one at a time (run) or concurrently (run_async).          *)
(*                                                                         *)
(* Python values are modelled as follows.  A str that the code only        *)
(* copies is a TLA+ string; a str that the code takes apart (a location)   *)
(* is the sequence of its Unicode code points.  None is the value None     *)
(* below.                                                                  *)
(* A dict is a function whose DOMAIN is its set of keys, a list is a       *)
(* sequence.  A call that may raise yields a record whose field exc names  *)
(* the exception ("none" when the call returns).                           *)
(***************************************************************************)
EXTENDS Integers, Sequences, FiniteSets, TLC

VARIABLES
    json_response,  \* SpecParse: the raw response handed to a data class
    obj,            \* SpecParse: outcome of the data class constructor
    client,         \* the GoogleDistance object (NoClient before __init__)
    call,           \* the last call made on the client and its arguments
    outcome,        \* what that call returned or raised
    pc,             \* position of run_async: "idle", "awaiting" or "done"
    url_list,       \* run_async: the URLs built for the batch, in order
    futures,        \* run_async: per URL, the settled outcome of its call
    completed       \* run_async: indices of settled calls, in settling order

vars == <<json_response, obj, client, call, outcome, pc, url_list, futures, completed>>

None == "None"

EmptyDict == [k \in {} |-> None]

(***************************************************************************)
(* Python primitives used by the parsers.                                  *)
(***************************************************************************)

\* d.get(k)[0]: d.get(k) is None when k is missing, and None[0] is a
\* TypeError; an empty list gives an IndexError.
GetIndex0(d, k) ==
    IF k \notin DOMAIN d THEN [exc |-> "TypeError"]
    ELSE IF Len(d[k]) = 0 THEN [exc |-> "IndexError"]
    ELSE [exc |-> "none", v |-> d[k][1]]

\* d[k]: a KeyError naming k when k is missing.
GetItem(d, k) ==
    IF k \in DOMAIN d THEN [exc |-> "none", v |-> d[k]]
    ELSE [exc |-> "KeyError", key |-> k]

\* d.get('status') at the top level: None when the key is missing.
DictGet(d, k) == IF k \in DOMAIN d THEN d[k] ELSE None

\* f'JSON not fully valid. Key Error: {error}'; str(KeyError(k)) is repr(k).
KeyErrorStatus(k) ==
    CASE k = "status" -> "JSON not fully valid. Key Error: 'status'"
      [] k = "distance" -> "JSON not fully valid. Key Error: 'distance'"
      [] k = "duration" -> "JSON not fully valid. Key Error: 'duration'"
      [] k = "duration_in_traffic" ->
             "JSON not fully valid. Key Error: 'duration_in_traffic'"
      [] k = "value" -> "JSON not fully valid. Key Error: 'value'"
      [] OTHER -> "JSON not fully valid. Key Error: <other>"

\* f'JSON not fully valid, index error: {error}'
IndexErrorStatus == "JSON not fully valid, index error: list index out of range"

KeyErrorStatuses ==
    {KeyErrorStatus(k) : k \in {"status", "distance", "duration",
                                "duration_in_traffic", "value"}}

Return(self) == [exc |-> "none", self |-> self]

Raise(name, self) == [exc |-> name, self |-> self]

\* A raw response is the decoded JSON body (a dict) or, in a run_async
\* batch, the exception object gather() put in that slot.
JsonBody(d) == [kind |-> "dict", d |-> d]

ExceptionObject(name) == [kind |-> "exception", name |-> name]

(***************************************************************************)
(* data_classes.TravelTime                                                 *)
(***************************************************************************)

\* The except clauses of parse_general_json: KeyError and IndexError are
\* turned into a status; anything else leaves the constructor.
GeneralExcept(e, self) ==
    CASE e.exc = "KeyError" ->
             Return([self EXCEPT !.status = KeyErrorStatus(e.key)])
      [] e.exc = "IndexError" ->
             Return([self EXCEPT !.status = IndexErrorStatus])
      [] OTHER -> Raise(e.exc, self)

\* Lines 41-44: the branch taken when the element's status is 'OK'.
ReadDistanceDuration(self, elements) ==
    LET dist == GetItem(elements, "distance") IN
    IF dist.exc # "none" THEN GeneralExcept(dist, self)
    ELSE
      LET distv == GetItem(dist.v, "value") IN
      IF distv.exc # "none" THEN GeneralExcept(distv, self)
      ELSE
        LET s1 == [self EXCEPT !.distance = distv.v]
            dur == GetItem(elements, "duration")
        IN
        IF dur.exc # "none" THEN GeneralExcept(dur, s1)
        ELSE
          LET durv == GetItem(dur.v, "value") IN
          IF durv.exc # "none" THEN GeneralExcept(durv, s1)
          ELSE Return([s1 EXCEPT !.duration = durv.v,
                                 !.status = "OK",
                                 !.success = TRUE])

\* Mutant of ParseElement: the element's status is read but not compared
\* with 'OK'.
ParseElementStatusUnchecked(self, elements) ==
    LET st == GetItem(elements, "status") IN
    IF st.exc # "none" THEN GeneralExcept(st, self)
    ELSE ReadDistanceDuration(self, elements)

\* Lines 40-46: the element of rows[0].elements[0].
ParseElement(self, elements) ==
    LET st == GetItem(elements, "status") IN
    IF st.exc # "none" THEN GeneralExcept(st, self)
    ELSE IF st.v # "OK" THEN Return([self EXCEPT !.status = st.v])
    ELSE ReadDistanceDuration(self, elements)

\* json_response.get('rows')[0].get('elements')[0]
FirstElement(j) ==
    LET r == GetIndex0(j, "rows") IN
    IF r.exc # "none" THEN r ELSE GetIndex0(r.v, "elements")

ParseGeneralJson(self) ==
    IF self.json_response.kind # "dict"
    THEN Raise("AttributeError", self)   \* an exception object has no .get
    ELSE
      LET j == self.json_response.d
          status == DictGet(j, "status")
      IN
      IF status # "OK" THEN Return([self EXCEPT !.status = status])
      ELSE
        LET o == GetIndex0(j, "origin_addresses") IN
        IF o.exc # "none" THEN GeneralExcept(o, self)
        ELSE
          LET s1 == [self EXCEPT !.origin = o.v]
              d == GetIndex0(j, "destination_addresses")
          IN
          IF d.exc # "none" THEN GeneralExcept(d, s1)
          ELSE
            LET s2 == [s1 EXCEPT !.destination = d.v]
                e == FirstElement(j)
            IN
            IF e.exc # "none" THEN GeneralExcept(e, s2)
            ELSE ParseElement(s2, e.v)

\* TravelTime.__init__; kwargs are stored as attributes of the object.
TravelTimeInit(raw, kwargs) ==
    ParseGeneralJson([json_response |-> raw,
                      success |-> FALSE,
                      status |-> "Not parsed",
                      origin |-> "",
                      destination |-> "",
                      distance |-> None,
                      duration |-> None,
                      kwargs |-> kwargs])

(***************************************************************************)
(* data_classes.Driving                                                    *)
(***************************************************************************)

\* Lines 101-109 with the key read from the element as a parameter.
ReadTrafficValue(self, key) ==
    LET element == FirstElement(self.json_response.d) IN
    LET fail(e) ==
          CASE e.exc = "KeyError" ->
                   Return([self EXCEPT !.status = KeyErrorStatus(e.key),
                                       !.success = FALSE])
            [] e.exc = "IndexError" ->
                   Return([self EXCEPT !.status = IndexErrorStatus,
                                       !.success = FALSE])
            [] OTHER -> Raise(e.exc, self)
    IN
    IF element.exc # "none" THEN fail(element)
    ELSE
      LET dit == GetItem(element.v, key) IN
      IF dit.exc # "none" THEN fail(dit)
      ELSE
        LET ditv == GetItem(dit.v, "value") IN
        IF ditv.exc # "none" THEN fail(ditv)
        ELSE Return([self EXCEPT !.duration_in_traffic = ditv.v])

\* Mutant of DrivingParseModeJson: reads element['duration'].
DrivingParseModeJsonWrongKey(self) == ReadTrafficValue(self, "duration")

DrivingParseModeJson(self) == ReadTrafficValue(self, "duration_in_traffic")

Driving(raw, kwargs) ==
    LET base == TravelTimeInit(raw, kwargs) IN
    IF base.exc # "none" THEN base
    ELSE
      LET self == [mode |-> "driving", duration_in_traffic |-> None] @@ base.self
      IN IF self.status = "OK" THEN DrivingParseModeJson(self) ELSE Return(self)

(***************************************************************************)
(* data_classes.Transit                                                    *)
(***************************************************************************)

NoFare == "No fare information available"

\* The try block assigns currency, cost and cost_text one after the other;
\* a KeyError ends it and is swallowed, keeping what was assigned so far.
TransitParseModeJson(self) ==
    LET el == FirstElement(self.json_response.d) IN
    IF el.exc # "none" THEN Raise(el.exc, self)
    ELSE
      LET fare == GetItem(el.v, "fare") IN
      IF fare.exc # "none" THEN Return(self)
      ELSE
        LET c == GetItem(fare.v, "currency") IN
        IF c.exc # "none" THEN Return(self)
        ELSE
          LET s1 == [self EXCEPT !.currency = c.v]
              v == GetItem(fare.v, "value")
          IN
          IF v.exc # "none" THEN Return(s1)
          ELSE
            LET s2 == [s1 EXCEPT !.cost = v.v]
                t == GetItem(fare.v, "text")
            IN
            IF t.exc # "none" THEN Return(s2)
            ELSE Return([s2 EXCEPT !.cost_text = t.v])

Transit(raw, kwargs) ==
    LET base == TravelTimeInit(raw, kwargs) IN
    IF base.exc # "none" THEN base
    ELSE
      LET self == [mode |-> "transit", currency |-> NoFare, cost |-> NoFare,
                   cost_text |-> NoFare] @@ base.self
      IN IF self.status = "OK" THEN TransitParseModeJson(self) ELSE Return(self)

(***************************************************************************)
(* data_classes.Walking, data_classes.Bicycling                            *)
(***************************************************************************)

Walking(raw, kwargs) ==
    LET base == TravelTimeInit(raw, kwargs) IN
    IF base.exc # "none" THEN base
    ELSE Return([mode |-> "walking"] @@ base.self)

Bicycling(raw, kwargs) ==
    LET base == TravelTimeInit(raw, kwargs) IN
    IF base.exc # "none" THEN base
    ELSE Return([mode |-> "bicycling"] @@ base.self)

\* obj.parse_mode_json() by the class of obj; Walking and Bicycling pass.
ParseModeJson(cls, self) ==
    CASE cls = "Driving" -> DrivingParseModeJson(self)
      [] cls = "Transit" -> TransitParseModeJson(self)
      [] cls = "Walking" -> Return(self)
      [] cls = "Bicycling" -> Return(self)

\* getattr(data_classes, self.mode.title())
DataClass(mode, raw, kwargs) ==
    CASE mode = "driving" -> Driving(raw, kwargs)
      [] mode = "transit" -> Transit(raw, kwargs)
      [] mode = "walking" -> Walking(raw, kwargs)
      [] mode = "bicycling" -> Bicycling(raw, kwargs)

(***************************************************************************)
(* Responses of the Distance Matrix API, as the parsers may meet them:     *)
(* every key of the documented shape may be missing and every list may be  *)
(* empty.  An optional part is <<>> (missing) or <<v>> (present).          *)
(* JSON numbers are only copied by the parsers and are written as strings. *)
(***************************************************************************)

Opt(S) == {<<>>} \cup {<<v>> : v \in S}

\* The dict holding the parts of opts that are present.
MkDict(opts) ==
    [k \in {x \in DOMAIN opts : Len(opts[x]) = 1} |-> opts[k][1]]

Restrict(d, keys) == [k \in keys |-> d[k]]

ValueObjects(v) == Opt({EmptyDict, [value |-> v]})

FullFare == [currency |-> "USD", value |-> "6", text |-> "$6.00"]

Fares == Opt({Restrict(FullFare, K) : K \in SUBSET DOMAIN FullFare})

ElementStatuses == {"OK", "NOT_FOUND"}

TopStatuses == {"OK", "OVER_QUERY_LIMIT"}

Elements ==
    {MkDict([status |-> s, distance |-> d, duration |-> u,
             duration_in_traffic |-> t, fare |-> f]) :
        s \in Opt(ElementStatuses),
        d \in ValueObjects("348700"),
        u \in ValueObjects("13684"),
        t \in ValueObjects("15570"),
        f \in Fares}

ElementLists == {<<>>} \cup {<<e>> : e \in Elements}

RowLists == {<<>>} \cup {<<MkDict([elements |-> e])>> : e \in Opt(ElementLists)}

Payloads ==
    {MkDict([status |-> s, origin_addresses |-> o,
             destination_addresses |-> d, rows |-> r]) :
        s \in Opt(TopStatuses),
        o \in Opt({<<>>, <<"Boston, MA, USA">>}),
        d \in Opt({<<>>, <<"New York, NY, USA">>}),
        r \in Opt(RowLists)}

(***************************************************************************)
(* SpecParse: a data class is instantiated directly on a response, as in   *)
(* tests/test_api_responses.py, and its two public parse methods may then  *)
(* be called on the object any number of times.  obj.res.exc is what the   *)
(* constructor raised ("none" when it returned the object), obj.res.self   *)
(* holds the object's attributes as the last call left them, and call and  *)
(* outcome record the last method called on it and what that call raised.  *)
(***************************************************************************)

NoClient == [made |-> FALSE]

NoCall == [op |-> "none"]

Unbuilt == [cls |-> "none"]

ClientIdle ==
    /\ client = NoClient
    /\ call = NoCall
    /\ outcome = NoCall
    /\ pc = "idle"
    /\ url_list = <<>>
    /\ futures = <<>>
    /\ completed = <<>>

InitParse ==
    /\ json_response \in {JsonBody(p) : p \in Payloads}
    /\ obj = Unbuilt
    /\ ClientIdle

clientVars == <<client, call, outcome, pc, url_list, futures, completed>>

NewDriving ==
    /\ obj = Unbuilt
    /\ obj' = [cls |-> "Driving", res |-> Driving(json_response, EmptyDict)]
    /\ UNCHANGED <<json_response, clientVars>>

NewTransit ==
    /\ obj = Unbuilt
    /\ obj' = [cls |-> "Transit", res |-> Transit(json_response, EmptyDict)]
    /\ UNCHANGED <<json_response, clientVars>>

NewWalking ==
    /\ obj = Unbuilt
    /\ obj' = [cls |-> "Walking", res |-> Walking(json_response, EmptyDict)]
    /\ UNCHANGED <<json_response, clientVars>>

NewBicycling ==
    /\ obj = Unbuilt
    /\ obj' = [cls |-> "Bicycling", res |-> Bicycling(json_response, EmptyDict)]
    /\ UNCHANGED <<json_response, clientVars>>

\* The constructor returned an object.
Constructed == obj.cls # "none" /\ obj.res.exc = "none"

\* obj.parse_general_json() on a constructed object: the method runs on the
\* attributes as they are, with no reset; on an exception the assignments
\* made before it stay.
CallParseGeneralJson ==
    /\ Constructed
    /\ LET r == ParseGeneralJson(obj.res.self) IN
         /\ obj' = [obj EXCEPT !.res.self = r.self]
         /\ call' = [op |-> "parse_general_json"]
         /\ outcome' = [exc |-> r.exc]
    /\ UNCHANGED <<json_response, client, pc, url_list, futures, completed>>

\* obj.parse_mode_json() on a constructed object: unlike in __init__, no
\* check of status precedes it.
CallParseModeJson ==
    /\ Constructed
    /\ LET r == ParseModeJson(obj.cls, obj.res.self) IN
         /\ obj' = [obj EXCEPT !.res.self = r.self]
         /\ call' = [op |-> "parse_mode_json"]
         /\ outcome' = [exc |-> r.exc]
    /\ UNCHANGED <<json_response, client, pc, url_list, futures, completed>>

NextParse ==
    \/ NewDriving
    \/ NewTransit
    \/ NewWalking
    \/ NewBicycling
    \/ CallParseGeneralJson
    \/ CallParseModeJson

SpecParse == InitParse /\ [][NextParse]_vars

(***************************************************************************)
(* get_travel_times.GoogleDistance                                         *)
(***************************************************************************)

\* Python truthiness of the values the client tests: None and '' are falsy.
Truthy(v) == v \notin {None, ""}

\* Mutant of InitRejects: only transit_mode is tested.
InitRejectsTransitModeOnly(mode, transit_mode, transit_routing_preference) ==
    Truthy(transit_mode) /\ mode # "transit"

\* Line 37: the condition under which __init__ raises ValueError.
InitRejects(mode, transit_mode, transit_routing_preference) ==
    (Truthy(transit_mode) \/ Truthy(transit_routing_preference))
        /\ mode # "transit"

\* GoogleDistance.__init__ on its keyword arguments.
GoogleDistanceInit(args) ==
    IF InitRejects(args.mode, args.transit_mode, args.transit_routing_preference)
    THEN [exc |-> "ValueError"]
    ELSE [exc |-> "none",
          self |-> [made |-> TRUE,
                    api_key |-> args.api_key,
                    units |-> args.units,
                    language |-> args.language,
                    mode |-> args.mode,
                    transit_mode |-> args.transit_mode,
                    transit_routing_preference |-> args.transit_routing_preference,
                    avoid |-> args.avoid,
                    traffic_model |-> args.traffic_model,
                    valid_attributes |-> EmptyDict]]

BaseUrl == "https://maps.googleapis.com/maps/api/distancematrix/json?"

\* A character of a location is its Unicode code point.  The comma that
\* prep_location_entry replaces, the space it puts in its place, and the
\* '+' and '|' it joins with:
Comma == 44

Space == 32

Plus == 43

Bar == 124

\* The characters str.split() splits on, those with str.isspace(): tab to
\* carriage return, the four separators U+001C..U+001F, space, U+0085,
\* U+00A0, U+1680, U+2000..U+200A, U+2028, U+2029, U+202F, U+205F, U+3000.
Whitespace ==
    (9..13) \cup (28..32) \cup {133, 160, 5760} \cup (8192..8202)
        \cup {8232, 8233, 8239, 8287, 12288}

\* Mutant of ReplaceCommas: the commas are left in place.
ReplaceCommasKept(s) == s

\* str.replace(',', ' ')
ReplaceCommas(s) ==
    [i \in 1..Len(s) |-> IF s[i] = Comma THEN Space ELSE s[i]]

\* str.split(): the maximal runs of non-whitespace characters, in order.
RECURSIVE SplitFrom(_, _, _, _)
SplitFrom(s, i, word, words) ==
    IF i > Len(s)
    THEN IF word = <<>> THEN words ELSE Append(words, word)
    ELSE IF s[i] \in Whitespace
    THEN SplitFrom(s, i + 1, <<>>,
                   IF word = <<>> THEN words ELSE Append(words, word))
    ELSE SplitFrom(s, i + 1, Append(word, s[i]), words)

Split(s) == SplitFrom(s, 1, <<>>, <<>>)

\* sep.join(parts)
RECURSIVE Join(_, _)
Join(parts, sep) ==
    IF Len(parts) = 0 THEN <<>>
    ELSE IF Len(parts) = 1 THEN parts[1]
    ELSE parts[1] \o <<sep>> \o Join(Tail(parts), sep)

PrepString(loc) == Join(Split(ReplaceCommas(loc)), Plus)

\* A location is a str, [list |-> FALSE, str |-> s], or a list of str,
\* [list |-> TRUE, items |-> <<s1, ..., sn>>].
PrepLocationEntry(location) ==
    IF location.list
    THEN Join([i \in 1..Len(location.items) |-> PrepString(location.items[i])],
              Bar)
    ELSE PrepString(location.str)

\* Mutant of DefaultDepartureTime: the parameter defaults to None.
DefaultDepartureTimeNone == None

\* Line 62: departure_time='now'.
DefaultDepartureTime == "now"

\* The arguments of write_query_string as bound from a call's keywords.
DepartureTime(req) ==
    IF "departure_time" \in DOMAIN req THEN req.departure_time
    ELSE DefaultDepartureTime

ArrivalTime(req) ==
    IF "arrival_time" \in DOMAIN req THEN req.arrival_time ELSE None

\* Mutant of TimesConflict: the check of line 76 is left out.
TimesConflictUnchecked(departure_time, arrival_time) == FALSE

\* Line 76.
TimesConflict(departure_time, arrival_time) ==
    Truthy(departure_time) /\ Truthy(arrival_time)

Param(k, v) == [k |-> k, v |-> v]

\* dict[key] = value
DictSet(d, key, value) == (key :> value) @@ d

\* Mutant of AttributeOrder: units before language.
AttributeOrderSwapped ==
    <<"units", "language", "avoid", "traffic_model", "transit_mode",
      "transit_routing_preference">>

\* Line 84.
AttributeOrder ==
    <<"language", "units", "avoid", "traffic_model", "transit_mode",
      "transit_routing_preference">>

\* Lines 84-88 from the i-th attribute on; st holds options and
\* valid_attributes.
RECURSIVE AppendAttributes(_, _, _)
AppendAttributes(self, i, st) ==
    IF i > Len(AttributeOrder) THEN st
    ELSE
      LET attribute == AttributeOrder[i]
          attribute_value == self[attribute]
      IN
      IF Truthy(attribute_value)
      THEN AppendAttributes(self, i + 1,
             [options |-> Append(st.options, Param(attribute, attribute_value)),
              valid_attributes |->
                  DictSet(st.valid_attributes, attribute, attribute_value)])
      ELSE AppendAttributes(self, i + 1, st)

\* write_query_string(**req): the URL is its base and the sequence of
\* key=value parameters that '&' joins; self is the client afterwards.
WriteQueryString(self, req) ==
    LET origin == PrepLocationEntry(req.origin)
        destination == PrepLocationEntry(req.destination)
        departure_time == DepartureTime(req)
        arrival_time == ArrivalTime(req)
        options0 == <<Param("origins", origin),
                      Param("destinations", destination),
                      Param("mode", self.mode),
                      Param("key", self.api_key)>>
    IN
    IF TimesConflict(departure_time, arrival_time)
    THEN [exc |-> "ValueError", self |-> self]
    ELSE
      LET st1 == IF Truthy(departure_time)
                 THEN [options |-> Append(options0,
                                     Param("departure_time", departure_time)),
                       valid_attributes |->
                           DictSet(self.valid_attributes, "departure_time",
                                   departure_time)]
                 ELSE [options |-> options0,
                       valid_attributes |-> self.valid_attributes]
          st2 == IF Truthy(arrival_time)
                 THEN [options |-> Append(st1.options,
                                     Param("arrival_time", arrival_time)),
                       valid_attributes |->
                           DictSet(st1.valid_attributes, "arrival_time",
                                   arrival_time)]
                 ELSE st1
          st3 == AppendAttributes(self, 1, st2)
      IN [exc |-> "none",
          url |-> [base |-> BaseUrl, query |-> st3.options],
          self |-> [self EXCEPT !.valid_attributes = st3.valid_attributes]]

(***************************************************************************)
(* The remote service, as far as the client can tell: a call for a URL     *)
(* returns a JSON body or raises.  A complete answer names the origins and *)
(* destinations of the URL it answers.                                     *)
(***************************************************************************)

QueryValue(url, key) ==
    LET i == CHOOSE n \in 1..Len(url.query) : url.query[n].k = key
    IN url.query[i].v

CompleteAnswer(url) ==
    [status |-> "OK",
     origin_addresses |-> <<QueryValue(url, "origins")>>,
     destination_addresses |-> <<QueryValue(url, "destinations")>>,
     rows |-> <<[elements |-> <<[status |-> "OK",
                                 distance |-> [value |-> "348700"],
                                 duration |-> [value |-> "13684"],
                                 duration_in_traffic |-> [value |-> "15570"],
                                 fare |-> FullFare]>>]>>]

\* A network error and a body that is not JSON, as aiohttp raises them.
TransportErrors == {"ClientConnectorError", "ContentTypeError"}

\* What the HTTP call for url yields under behaviour b: exc is "none" and
\* body the decoded JSON, or exc is the exception the call raises.
HttpGet(url, b) ==
    CASE b = "answer" -> [exc |-> "none", body |-> CompleteAnswer(url)]
      [] b = "over_limit" ->
             [exc |-> "none", body |-> [status |-> "OVER_QUERY_LIMIT"]]
      [] OTHER -> [exc |-> b]

\* run(**req) when the call behaves as b.
Run(self, req, b) ==
    LET built == WriteQueryString(self, req) IN
    IF built.exc # "none" THEN [exc |-> built.exc, self |-> self]
    ELSE
      LET got == HttpGet(built.url, b) IN
      IF got.exc # "none" THEN [exc |-> got.exc, self |-> built.self]
      ELSE
        LET made == DataClass(self.mode, JsonBody(got.body),
                              built.self.valid_attributes)
        IN IF made.exc # "none" THEN [exc |-> made.exc, self |-> built.self]
           ELSE [exc |-> "none", result |-> made.self, url |-> built.url,
                 self |-> built.self]

(***************************************************************************)
(* Spec: a client is constructed, then write_query_string and run are      *)
(* called on it any number of times.                                       *)
(***************************************************************************)

Modes == {"driving", "walking", "bicycling", "transit"}

\* The options any mode takes: each is set or empty (None or '')
\* independently of the others.
GeneralOptions ==
    [language : {None, "en"},
     units : {"", "imperial"},
     avoid : {None, "tolls"},
     traffic_model : {None, "best_guess"}]

TransitOptions ==
    [transit_mode : {None, "bus"},
     transit_routing_preference : {None, "less_walking"}]

InitArgs ==
    {[api_key |-> "an_api_key", mode |-> m] @@ g @@ t :
        m \in Modes, g \in GeneralOptions, t \in TransitOptions}

\* "123 Fake   Street, Boston MA" in small: "1 F  S, B".
LocA == <<49, Space, 70, Space, Space, 83, Comma, Space, 66>>

\* "New  ,York" in small: "N ,Y".
LocB == <<78, Space, Comma, 89>>

\* "C", a tab, "I".
LocC == <<67, 9, 73>>

Origins ==
    {[list |-> FALSE, str |-> LocA], [list |-> TRUE, items |-> <<LocC, LocB>>]}

Destinations == {[list |-> FALSE, str |-> LocB]}

\* The keyword arguments of one call: the time keywords may be left out.
Requests ==
    {MkDict([origin |-> <<o>>, destination |-> <<d>>,
             departure_time |-> dt, arrival_time |-> at]) :
        o \in Origins, d \in Destinations,
        dt \in Opt({None, "now"}),
        at \in Opt({"1700003600"})}

ParseIdle ==
    /\ json_response = JsonBody(EmptyDict)
    /\ obj = Unbuilt

Init ==
    /\ ParseIdle
    /\ ClientIdle

asyncVars == <<pc, url_list, futures, completed>>

parseVars == <<json_response, obj>>

NewClient ==
    /\ ~client.made
    /\ \E args \in InitArgs :
         LET made == GoogleDistanceInit(args) IN
         /\ call' = [op |-> "init", args |-> args]
         /\ outcome' = [exc |-> made.exc]
         /\ client' = IF made.exc = "none" THEN made.self ELSE client
    /\ UNCHANGED <<parseVars, asyncVars>>

CallWriteQueryString ==
    /\ client.made
    /\ pc = "idle"
    /\ \E req \in Requests :
         LET built == WriteQueryString(client, req) IN
         /\ call' = [op |-> "write_query_string", req |-> req]
         /\ outcome' = IF built.exc = "none"
                       THEN [exc |-> "none", url |-> built.url]
                       ELSE [exc |-> built.exc]
         /\ client' = built.self
    /\ UNCHANGED <<parseVars, asyncVars>>

RunBehaviours == {"answer", "TimeoutError"}

CallRun ==
    /\ client.made
    /\ pc = "idle"
    /\ \E req \in Requests, b \in RunBehaviours :
         LET ran == Run(client, req, b) IN
         /\ call' = [op |-> "run", req |-> req]
         /\ outcome' = IF ran.exc = "none"
                       THEN [exc |-> "none", url |-> ran.url, result |-> ran.result]
                       ELSE [exc |-> ran.exc]
         /\ client' = ran.self
    /\ UNCHANGED <<parseVars, asyncVars>>

Next == NewClient \/ CallWriteQueryString \/ CallRun

Spec == Init /\ [][Next]_vars

(***************************************************************************)
(* SpecAsync: run_async on a constructed client.  The URLs are built one   *)
(* after the other, the calls are all started, each settles at some point  *)
(* and in any order, and gather() returns once all have settled.           *)
(***************************************************************************)

MaxBatch == 2

\* Lines 118-121: write_query_string for each pair in turn; the first
\* ValueError leaves run_async.
RECURSIVE BuildUrls(_, _, _, _)
BuildUrls(self, pairs, i, urls) ==
    IF i > Len(pairs) THEN [exc |-> "none", self |-> self, urls |-> urls]
    ELSE
      LET built == WriteQueryString(self, pairs[i]) IN
      IF built.exc # "none" THEN [exc |-> built.exc, self |-> self]
      ELSE BuildUrls(built.self, pairs, i + 1, Append(urls, built.url))

Pending == [state |-> "pending"]

\* What gather(return_exceptions=True) holds for a settled call: the value
\* it returned, or the exception it raised, as a value.
Settled(got) ==
    IF got.exc = "none" THEN JsonBody(got.body) ELSE ExceptionObject(got.exc)

\* Mutant of Gather: the outcomes in the order the calls settled.
GatherInCompletionOrder(futs, order) ==
    [j \in 1..Len(order) |-> Settled(futs[order[j]].got)]

\* Line 109: gather() lists the outcomes in the order of its arguments.
Gather(futs, order) ==
    [i \in 1..Len(futs) |-> Settled(futs[i].got)]

\* Line 124: the list comprehension; the first constructor that raises
\* ends it.
RECURSIVE BuildResults(_, _, _, _, _)
BuildResults(mode, travel_times, kwargs, i, results) ==
    IF i > Len(travel_times) THEN [exc |-> "none", results |-> results]
    ELSE
      LET made == DataClass(mode, travel_times[i], kwargs) IN
      IF made.exc # "none" THEN [exc |-> made.exc]
      ELSE BuildResults(mode, travel_times, kwargs, i + 1,
                        Append(results, made.self))

DefaultArgs(m) ==
    [api_key |-> "an_api_key", mode |-> m, transit_mode |-> None,
     transit_routing_preference |-> None, language |-> "en", avoid |-> None,
     units |-> "imperial", traffic_model |-> "best_guess"]

AsyncClients == {GoogleDistanceInit(DefaultArgs(m)).self : m \in Modes}

\* The pairs of a batch: three that build, with different origins, and one
\* that gives an arrival_time only.
Pairs ==
    {[origin |-> [list |-> FALSE, str |-> LocA],
      destination |-> [list |-> FALSE, str |-> LocB]],
     [origin |-> [list |-> TRUE, items |-> <<LocC, LocB>>],
      destination |-> [list |-> FALSE, str |-> LocA],
      departure_time |-> None, arrival_time |-> "1700003600"],
     [origin |-> [list |-> FALSE, str |-> LocB],
      destination |-> [list |-> FALSE, str |-> LocA],
      departure_time |-> "now"],
     [origin |-> [list |-> FALSE, str |-> LocC],
      destination |-> [list |-> FALSE, str |-> LocA],
      arrival_time |-> "1700003600"]}

Batches == UNION {[1..n -> Pairs] : n \in 0..MaxBatch}

AsyncBehaviours == {"answer", "over_limit"} \cup TransportErrors

InitAsync ==
    /\ ParseIdle
    /\ client \in AsyncClients
    /\ call = NoCall
    /\ outcome = NoCall
    /\ pc = "idle"
    /\ url_list = <<>>
    /\ futures = <<>>
    /\ completed = <<>>

\* run_async up to the await: URLs built, calls started.  A behaviour holds
\* one call of run_async on a fresh client.
RunAsyncStart ==
    /\ pc = "idle"
    /\ call.op = "none"
    /\ \E batch \in Batches :
         LET built == BuildUrls(client, batch, 1, <<>>) IN
         /\ call' = [op |-> "run_async", batch |-> batch]
         /\ client' = built.self
         /\ IF built.exc # "none"
            THEN /\ outcome' = [exc |-> built.exc]
                 /\ UNCHANGED asyncVars
            ELSE /\ outcome' = [exc |-> "awaiting"]
                 /\ pc' = "awaiting"
                 /\ url_list' = built.urls
                 /\ futures' = [i \in 1..Len(batch) |-> Pending]
                 /\ completed' = <<>>
    /\ UNCHANGED parseVars

\* One call settles: it returns a body or raises.
Settle ==
    /\ pc = "awaiting"
    /\ \E i \in 1..Len(futures), b \in AsyncBehaviours :
         /\ futures[i].state = "pending"
         /\ futures' = [futures EXCEPT
                          ![i] = [state |-> "done", b |-> b,
                                  got |-> HttpGet(url_list[i], b)]]
         /\ completed' = Append(completed, i)
    /\ UNCHANGED <<parseVars, client, call, outcome, pc, url_list>>

\* gather() returns and the results are constructed.
RunAsyncFinish ==
    /\ pc = "awaiting"
    /\ \A i \in 1..Len(futures) : futures[i].state = "done"
    /\ LET travel_times == Gather(futures, completed)
           made == BuildResults(client.mode, travel_times,
                                client.valid_attributes, 1, <<>>)
       IN outcome' = made
    /\ pc' = "done"
    /\ UNCHANGED <<parseVars, client, call, url_list, futures, completed>>

NextAsync == RunAsyncStart \/ Settle \/ RunAsyncFinish

SpecAsync == InitAsync /\ [][NextAsync]_vars

(***************************************************************************)
(* SpecLoc: prep_location_entry, a static method, is called on a str or on *)
(* a list of str.  The characters are a letter, three of the whitespace   *)
(* characters, the comma, and the two delimiters of the output.            *)
(***************************************************************************)

MaxLen == 3

MaxItemLen == 1

MaxItems == 2

\* 97 is the letter a, 13 the carriage return, 160 the no-break space.
Chars == {97, Space, 13, 160, Comma, Plus, Bar}

StringsUpTo(n) == UNION {[1..k -> Chars] : k \in 0..n}

LocationInputs ==
    {[list |-> FALSE, str |-> x] : x \in StringsUpTo(MaxLen)}
    \cup {[list |-> TRUE, items |-> xs] :
            xs \in UNION {[1..k -> StringsUpTo(MaxItemLen)] : k \in 0..MaxItems}}

InitLoc ==
    /\ ParseIdle
    /\ client = NoClient
    /\ call \in {[op |-> "prep_location_entry", location |-> l] :
                   l \in LocationInputs}
    /\ outcome = NoCall
    /\ pc = "idle"
    /\ url_list = <<>>
    /\ futures = <<>>
    /\ completed = <<>>

CallPrepLocationEntry ==
    /\ call.op = "prep_location_entry"
    /\ outcome = NoCall
    /\ outcome' = [exc |-> "none", value |-> PrepLocationEntry(call.location)]
    /\ UNCHANGED <<parseVars, client, call, asyncVars>>

NextLoc == CallPrepLocationEntry

SpecLoc == InitLoc /\ [][NextLoc]_vars

(***************************************************************************)
(* Properties of the data classes (SpecParse).                             *)
(***************************************************************************)

Built == obj.cls # "none"

Body == json_response.d

TopOK == DictGet(Body, "status") = "OK"

HasList(d, k) == k \in DOMAIN d /\ Len(d[k]) > 0

HasValue(d, k) == k \in DOMAIN d /\ "value" \in DOMAIN d[k]

AddressesPresent ==
    HasList(Body, "origin_addresses") /\ HasList(Body, "destination_addresses")

HasElement == HasList(Body, "rows") /\ HasList(Body.rows[1], "elements")

Element == Body.rows[1].elements[1]

ElementOK == "status" \in DOMAIN Element /\ Element.status = "OK"

\* A key or an index the general parse needs is missing.
SchemaDefect ==
    \/ ~AddressesPresent
    \/ ~HasElement
    \/ "status" \notin DOMAIN Element
    \/ ElementOK /\ (~HasValue(Element, "distance") \/ ~HasValue(Element, "duration"))

SchemaInvalidStatuses == KeyErrorStatuses \cup {IndexErrorStatus}

\* C3: for every mode, a payload whose top-level status is "OK" but which
\* lacks a key or an index the general parse reads is turned into a result
\* with success = false and a schema-invalid status (key-error or index-error
\* wording); the constructor raises nothing.
C3_SchemaInvalidIsFailedResult ==
    (Built /\ TopOK /\ SchemaDefect) =>
        /\ obj.res.exc = "none"
        /\ obj.res.self.success = FALSE
        /\ obj.res.self.status \in SchemaInvalidStatuses

\* The part of C3 the code does meet: an empty list or a missing key below
\* the element is reported in the status.
C3_IndexAndElementKeysReported ==
    (Built /\ TopOK /\ SchemaDefect /\ obj.res.exc = "none") =>
        /\ obj.res.self.success = FALSE
        /\ obj.res.self.status \in SchemaInvalidStatuses

\* The status is as the general parse left it: the object is as constructed,
\* or the last method called on it directly was not parse_mode_json (which,
\* for Driving, may replace the status by a schema-invalid message).
StatusFromGeneralParse == call.op # "parse_mode_json"

\* C4: for every mode, a top-level status other than "OK" gives success =
\* false and that status verbatim; a top-level "OK" with non-empty address
\* and element lists and an element status other than "OK" gives success =
\* false and that element status; distance and duration stay None in both.
\* Success, distance and duration are so in every state of the object, also
\* after direct calls of its parse methods; the status is so on the
\* constructed object and whenever the general parse was the last to set it.
C4_RemoteFailureEncoded ==
    /\ (Built /\ ~TopOK) =>
          /\ obj.res.exc = "none"
          /\ obj.res.self.success = FALSE
          /\ StatusFromGeneralParse =>
                obj.res.self.status = DictGet(Body, "status")
          /\ obj.res.self.distance = None
          /\ obj.res.self.duration = None
    /\ (/\ Built /\ TopOK /\ AddressesPresent /\ HasElement
        /\ "status" \in DOMAIN Element /\ Element.status # "OK") =>
          /\ obj.res.exc = "none"
          /\ obj.res.self.success = FALSE
          /\ StatusFromGeneralParse => obj.res.self.status = Element.status
          /\ obj.res.self.distance = None
          /\ obj.res.self.duration = None

\* An element-level NOT_FOUND, with distance and duration in the payload, has
\* been parsed by the Transit constructor.
C4_Witness ==
    /\ obj.cls = "Transit"
    /\ call = NoCall
    /\ TopOK /\ AddressesPresent /\ HasElement
    /\ "status" \in DOMAIN Element /\ Element.status = "NOT_FOUND"
    /\ HasValue(Element, "distance") /\ HasValue(Element, "duration")
    /\ obj.res.exc = "none"
    /\ obj.res.self.status = "NOT_FOUND"
    /\ obj.res.self.success = FALSE

\* A Driving object built on a top-level failure has had parse_mode_json
\* called on it directly: the status is the index-error message, success is
\* still false.
C4_DirectCallWitness ==
    /\ obj.cls = "Driving"
    /\ ~TopOK
    /\ call.op = "parse_mode_json"
    /\ obj.res.self.status = IndexErrorStatus
    /\ obj.res.self.success = FALSE

\* A fully valid single-element driving payload.
ValidDrivingPayload ==
    /\ TopOK /\ AddressesPresent /\ HasElement /\ ElementOK
    /\ HasValue(Element, "distance")
    /\ HasValue(Element, "duration")
    /\ HasValue(Element, "duration_in_traffic")

\* C5: Driving on a fully valid single-element payload (top-level and element
\* status "OK", distance.value, duration.value and duration_in_traffic.value
\* present) has success = true, status "OK" and the payload's three values.
C5_DrivingValidPayload ==
    (obj.cls = "Driving" /\ ValidDrivingPayload) =>
        /\ obj.res.exc = "none"
        /\ obj.res.self.success = TRUE
        /\ obj.res.self.status = "OK"
        /\ obj.res.self.distance = Element.distance.value
        /\ obj.res.self.duration = Element.duration.value
        /\ obj.res.self.duration_in_traffic = Element.duration_in_traffic.value

C5_Witness ==
    /\ obj.cls = "Driving"
    /\ call = NoCall
    /\ ValidDrivingPayload
    /\ obj.res.self.success = TRUE
    /\ obj.res.self.duration_in_traffic = "15570"
    /\ obj.res.self.distance = "348700"

\* The general parse of the payload yields status "OK".
GeneralParseOK ==
    /\ TopOK /\ AddressesPresent /\ HasElement /\ ElementOK
    /\ HasValue(Element, "distance")
    /\ HasValue(Element, "duration")

FareIncomplete ==
    \/ "fare" \notin DOMAIN Element
    \/ DOMAIN Element.fare # {"currency", "value", "text"}

\* C6: Transit on a payload whose general parse is "OK" and whose element has
\* no fare, or a fare lacking one of currency, value, text, keeps success =
\* true and leaves currency, cost and cost_text all at the default sentinel.
C6_IncompleteFareKeepsDefaults ==
    (obj.cls = "Transit" /\ GeneralParseOK /\ FareIncomplete) =>
        /\ obj.res.exc = "none"
        /\ obj.res.self.success = TRUE
        /\ obj.res.self.currency = NoFare
        /\ obj.res.self.cost = NoFare
        /\ obj.res.self.cost_text = NoFare

\* The part of C6 the code does meet: success is kept, and the defaults are
\* kept when the fare object or its first key read, currency, is missing.
C6_MissingFareKeepsDefaults ==
    (/\ obj.cls = "Transit" /\ GeneralParseOK
     /\ ("fare" \notin DOMAIN Element \/ "currency" \notin DOMAIN Element.fare)) =>
        /\ obj.res.exc = "none"
        /\ obj.res.self.success = TRUE
        /\ obj.res.self.currency = NoFare
        /\ obj.res.self.cost = NoFare
        /\ obj.res.self.cost_text = NoFare

(***************************************************************************)
(* Properties of the query builder and of __init__ (Spec).                 *)
(***************************************************************************)

IsBuild == call.op \in {"write_query_string", "run"}

Keys(url) == {url.query[i].k : i \in 1..Len(url.query)}

IsTimeParam(p) == p.k \in {"departure_time", "arrival_time"}

TimeParams(url) == SelectSeq(url.query, IsTimeParam)

PassesDeparture(req) == "departure_time" \in DOMAIN req

GivesDeparture(req) == PassesDeparture(req) /\ Truthy(req.departure_time)

GivesArrival(req) == "arrival_time" \in DOMAIN req /\ Truthy(req.arrival_time)

\* The departure_time write_query_string sees: the keyword, or 'now'.
SeenDeparture(req) ==
    IF PassesDeparture(req) THEN req.departure_time ELSE "now"

\* C7: write_query_string raises ValueError whenever its departure_time and
\* arrival_time are both non-empty, and no URL it returns has both a
\* departure_time and an arrival_time parameter.
C7_BothTimesRejected ==
    /\ (IsBuild /\ Truthy(SeenDeparture(call.req)) /\ GivesArrival(call.req)) =>
          outcome.exc = "ValueError"
    /\ (IsBuild /\ outcome.exc = "none") =>
          ~({"departure_time", "arrival_time"} \subseteq Keys(outcome.url))

C7_Witness ==
    /\ call.op = "write_query_string"
    /\ GivesDeparture(call.req)
    /\ GivesArrival(call.req)
    /\ outcome.exc = "ValueError"

Built1(req, param) ==
    /\ outcome.exc = "none"
    /\ TimeParams(outcome.url) = <<param>>

\* C8 as stated: the builder emits exactly one time parameter, which is
\* departure_time=<value> if the request gives a departure_time, otherwise
\* arrival_time=<value> if it gives an arrival_time (the build succeeding
\* with no departure_time), otherwise departure_time=now.
C8_OneTimeParameterAsStated ==
    (call.op = "write_query_string"
        /\ ~(GivesDeparture(call.req) /\ GivesArrival(call.req))) =>
      IF GivesDeparture(call.req)
      THEN Built1(call.req, Param("departure_time", call.req.departure_time))
      ELSE IF GivesArrival(call.req)
      THEN Built1(call.req, Param("arrival_time", call.req.arrival_time))
      ELSE Built1(call.req, Param("departure_time", "now"))

\* C8, amended: a request that gives a departure_time and no arrival_time
\* gets departure_time=<value>; one that gives an arrival_time gets
\* arrival_time=<value> alone only if it also passes departure_time as None
\* or '', and is refused with ValueError if it leaves departure_time out
\* (the default 'now' then counts as given); one that gives no arrival_time
\* and leaves departure_time out gets departure_time=now; one that gives no
\* arrival_time and passes an empty departure_time gets no time parameter.
C8_OneTimeParameter ==
    (call.op = "write_query_string"
        /\ ~(GivesDeparture(call.req) /\ GivesArrival(call.req))) =>
      IF GivesDeparture(call.req)
      THEN Built1(call.req, Param("departure_time", call.req.departure_time))
      ELSE IF GivesArrival(call.req)
      THEN IF PassesDeparture(call.req)
           THEN Built1(call.req, Param("arrival_time", call.req.arrival_time))
           ELSE outcome.exc = "ValueError"
      ELSE IF PassesDeparture(call.req)
           THEN outcome.exc = "none" /\ TimeParams(outcome.url) = <<>>
           ELSE Built1(call.req, Param("departure_time", "now"))

\* An arrival_time was given with departure_time passed as None, and the URL
\* carries arrival_time alone.
C8_Witness ==
    /\ call.op = "write_query_string"
    /\ GivesArrival(call.req)
    /\ PassesDeparture(call.req)
    /\ ~GivesDeparture(call.req)
    /\ outcome.exc = "none"
    /\ TimeParams(outcome.url) =
           <<Param("arrival_time", call.req.arrival_time)>>

TransitOnlyMisuse(c) ==
    (Truthy(c.transit_mode) \/ Truthy(c.transit_routing_preference))
        /\ c.mode # "transit"

\* C9: constructing a client with a non-empty transit_mode or
\* transit_routing_preference and a mode other than 'transit' raises
\* ValueError, and no client with such a combination exists.
C9_TransitOptionsNeedTransitMode ==
    /\ (call.op = "init" /\ TransitOnlyMisuse(call.args)) =>
          (outcome.exc = "ValueError" /\ ~client.made)
    /\ client.made => ~TransitOnlyMisuse(client)

C9_Witness ==
    /\ call.op = "init"
    /\ call.args.mode = "walking"
    /\ call.args.transit_routing_preference = "less_walking"
    /\ ~Truthy(call.args.transit_mode)
    /\ outcome.exc = "ValueError"
    /\ ~client.made

FixedOrder ==
    <<"language", "units", "avoid", "traffic_model", "transit_mode",
      "transit_routing_preference">>

IsConfigured(a) == Truthy(client[a])

ExpectedOptions ==
    LET present == SelectSeq(FixedOrder, IsConfigured)
    IN [i \in 1..Len(present) |-> Param(present[i], client[present[i]])]

ExpectedTime(req) ==
    IF Truthy(SeenDeparture(req))
    THEN <<Param("departure_time", SeenDeparture(req))>>
    ELSE IF GivesArrival(req)
    THEN <<Param("arrival_time", req.arrival_time)>>
    ELSE <<>>

QueryHead ==
    <<Param("origins", PrepLocationEntry(call.req.origin)),
      Param("destinations", PrepLocationEntry(call.req.destination)),
      Param("mode", client.mode),
      Param("key", client.api_key)>>

\* C10 as stated: the query of every URL the builder returns is, in this
\* order, origins, destinations, mode, key, one time parameter, then
\* language, units, avoid, traffic_model, transit_mode and
\* transit_routing_preference, each present exactly if the client's value
\* for it is non-empty.
C10_QueryOrderAsStated ==
    (IsBuild /\ outcome.exc = "none") =>
        /\ outcome.url.base = BaseUrl
        /\ Len(outcome.url.query) >= 5
        /\ IsTimeParam(outcome.url.query[5])
        /\ outcome.url.query =
              QueryHead \o <<outcome.url.query[5]>> \o ExpectedOptions

\* C10, amended: the query of every URL the builder returns is, in this
\* order, origins, destinations, mode, key, the time parameter of the
\* request (departure_time if the departure_time the builder sees is
\* non-empty, else arrival_time if one is given, else no time parameter),
\* then language, units, avoid, traffic_model, transit_mode and
\* transit_routing_preference, each present exactly if the client's value
\* for it is non-empty.
C10_QueryOrder ==
    (IsBuild /\ outcome.exc = "none") =>
        /\ outcome.url.base = BaseUrl
        /\ outcome.url.query =
              QueryHead \o ExpectedTime(call.req) \o ExpectedOptions

\* A URL was built by a client with language and avoid set and units and
\* traffic_model empty.
C10_Witness ==
    /\ call.op = "write_query_string"
    /\ ~PassesDeparture(call.req)
    /\ outcome.exc = "none"
    /\ Truthy(client.language) /\ ~Truthy(client.units)
    /\ Truthy(client.avoid) /\ ~Truthy(client.traffic_model)
    /\ Len(TimeParams(outcome.url)) = 1
    /\ Len(outcome.url.query) = 7
    /\ outcome.url.query[6].k = "language"
    /\ outcome.url.query[7].k = "avoid"

\* A URL was built for a request that passes departure_time empty and gives
\* no arrival_time, by a client with only units set: the query has no time
\* parameter and units follows key.
C10_NoTimeWitness ==
    /\ call.op = "write_query_string"
    /\ outcome.exc = "none"
    /\ PassesDeparture(call.req) /\ ~GivesDeparture(call.req)
    /\ ~GivesArrival(call.req)
    /\ Truthy(client.units) /\ ~Truthy(client.language)
    /\ ~Truthy(client.avoid) /\ ~Truthy(client.traffic_model)
    /\ TimeParams(outcome.url) = <<>>
    /\ Len(outcome.url.query) >= 5
    /\ outcome.url.query[5].k = "units"

(***************************************************************************)
(* Properties of run_async (SpecAsync).                                    *)
(***************************************************************************)

Returned == pc = "done"

N == Len(futures)

Failed(i) == futures[i].b \in TransportErrors

\* C1: when the call for exactly one request k of a batch fails and all the
\* others return complete answers, run_async raises nothing and returns N
\* results in input order, result k with success = false and a status, every
\* other result with success = true.
C1_FailedCallIsFailedResult ==
    \A k \in 1..N :
        (/\ Returned
         /\ Failed(k)
         /\ \A i \in (1..N) \ {k} : futures[i].b = "answer") =>
            /\ outcome.exc = "none"
            /\ Len(outcome.results) = N
            /\ outcome.results[k].success = FALSE
            /\ \A i \in (1..N) \ {k} : outcome.results[i].success = TRUE

\* What the code does instead: a batch with a failed call never returns.
C1_FailedCallRaises ==
    (Returned /\ \E k \in 1..N : Failed(k)) => outcome.exc = "AttributeError"

\* C2: when all calls of a batch return, in whatever order, run_async
\* returns one result per request, and result i is parsed from the response
\* to request i's URL.
C2_ResultsInRequestOrder ==
    (Returned /\ \A i \in 1..N : ~Failed(i)) =>
        /\ outcome.exc = "none"
        /\ Len(outcome.results) = Len(call.batch)
        /\ \A i \in 1..N :
              /\ outcome.results[i].json_response = JsonBody(futures[i].got.body)
              /\ futures[i].b = "answer" =>
                    /\ outcome.results[i].success = TRUE
                    /\ outcome.results[i].origin =
                           PrepLocationEntry(call.batch[i].origin)
              /\ futures[i].b = "over_limit" =>
                    outcome.results[i].status = "OVER_QUERY_LIMIT"

\* The second call of a batch settled before the first, both with complete
\* answers, for different origins.
C2_Witness ==
    /\ Returned
    /\ N = 2
    /\ completed = <<2, 1>>
    /\ futures[1].b = "answer" /\ futures[2].b = "answer"
    /\ outcome.exc = "none"
    /\ outcome.results[1].origin = PrepLocationEntry(call.batch[1].origin)
    /\ outcome.results[2].origin = PrepLocationEntry(call.batch[2].origin)
    /\ outcome.results[1].origin # outcome.results[2].origin

(***************************************************************************)
(* Properties of prep_location_entry (SpecLoc).                            *)
(***************************************************************************)

Formatted == call.op = "prep_location_entry" /\ outcome # NoCall

\* The pieces of out between its '|' characters, empty ones included.
RECURSIVE SegmentsFrom(_, _, _, _)
SegmentsFrom(out, i, seg, segs) ==
    IF i > Len(out) THEN Append(segs, seg)
    ELSE IF out[i] = Bar
    THEN SegmentsFrom(out, i + 1, <<>>, Append(segs, seg))
    ELSE SegmentsFrom(out, i + 1, Append(seg, out[i]), segs)

Segments(out) == SegmentsFrom(out, 1, <<>>, <<>>)

\* No blank, comma or '|', and every '+' stands between two other
\* characters that are not '+'.
WellFormedEntry(e) ==
    \A i \in 1..Len(e) :
        /\ e[i] \notin Whitespace \cup {Comma, Bar}
        /\ e[i] = Plus => (i > 1 /\ i < Len(e) /\ e[i + 1] # Plus)

\* The output has the shape the claim describes for the input.
WellFormedOutput(location, out) ==
    IF location.list
    THEN /\ Len(location.items) = 0 => out = <<>>
         /\ Len(location.items) > 0 =>
               Len(Segments(out)) = Len(location.items)
         /\ \A j \in 1..Len(Segments(out)) : WellFormedEntry(Segments(out)[j])
    ELSE WellFormedEntry(out)

HasDelimiter(x) == \E i \in 1..Len(x) : x[i] \in {Plus, Bar}

\* No string of the location holds a '+' or a '|' of its own.
DelimiterFree(location) ==
    IF location.list
    THEN \A j \in 1..Len(location.items) : ~HasDelimiter(location.items[j])
    ELSE ~HasDelimiter(location.str)

\* C11 as stated: for every str or list of str, the output has no
\* whitespace and no comma, '|' only between consecutive list entries, and
\* '+' only as the single separator of consecutive words of one entry.
C11_OutputShapeAsStated ==
    Formatted => WellFormedOutput(call.location, outcome.value)

\* C11, amended: the same, for every str or list of str in which no string
\* contains a '+' or a '|' (the formatter copies these characters as they
\* are).
C11_OutputShape ==
    (Formatted /\ DelimiterFree(call.location)) =>
        WellFormedOutput(call.location, outcome.value)

\* "a,a" has been formatted as "a+a".
C11_Witness ==
    /\ Formatted
    /\ ~call.location.list
    /\ call.location.str = <<97, Comma, 97>>
    /\ outcome.value = <<97, Plus, 97>>

\* A list whose second entry is blank has been formatted with the '|' kept.
C11_ListWitness ==
    /\ Formatted
    /\ call.location.list
    /\ call.location.items = << <<97>>, <<Space>> >>
    /\ outcome.value = <<97, Bar>>

(***************************************************************************)
(* Properties of the applied-options metadata (Spec, SpecAsync).           *)
(***************************************************************************)

IsOptionalParam(p) == p.k \notin {"origins", "destinations", "mode", "key"}

\* The optional parameters of a URL, keyed by name.
AppliedOptions(url) ==
    LET optional == SelectSeq(url.query, IsOptionalParam)
    IN [k \in {optional[i].k : i \in 1..Len(optional)} |-> QueryValue(url, k)]

\* C12: after any sequence of builds on one client, the applied-options
\* metadata attached to a result is exactly the set of optional parameters
\* appended to that result's own URL, with no key left from an earlier build.
C12_MetadataMatchesOwnUrl ==
    (call.op = "run" /\ outcome.exc = "none") =>
        outcome.result.kwargs = AppliedOptions(outcome.url)

\* C12 inside one run_async batch: the metadata of result i is the set of
\* optional parameters of URL i, with no key from a sibling request.
C12_BatchMetadataMatchesOwnUrl ==
    (pc = "done" /\ outcome.exc = "none") =>
        \A i \in 1..Len(outcome.results) :
            outcome.results[i].kwargs = AppliedOptions(url_list[i])

\* What the code does instead: a result carries the client's one record,
\* which holds the options of its own URL and whatever earlier builds left.
C12_MetadataIsClientRecord ==
    (call.op = "run" /\ outcome.exc = "none") =>
        /\ outcome.result.kwargs = client.valid_attributes
        /\ \A k \in DOMAIN AppliedOptions(outcome.url) :
              /\ k \in DOMAIN outcome.result.kwargs
              /\ outcome.result.kwargs[k] = AppliedOptions(outcome.url)[k]

====
